---- MODULE Spec2Model ----
(***************************************************************************)
(* Model of the auto-select round of the Green Model Advisor client        *)
(* (client/src/ChatCarbon.jsx, handleSingleEstimate) and of the accuracy   *)
(* formatting of the dashboard (client/src/Dashboard.jsx).                 *)
(*                                                                         *)
(* Numbers are fixed point: the JavaScript number 1.0 is Unit, so that     *)
(* 0.000067 kg is 67 and an accuracy of 77 (percent) is 77 * Unit.         *)
(* An optional JavaScript value is a sequence: <<>> is undefined/null and  *)
(* <<v>> is the value v.                                                   *)
(***************************************************************************)
EXTENDS Integers, Sequences, FiniteSets, TLC

VARIABLES
  input,              \* useState "input": the prompt, a sequence of tokens
  availableModels,    \* useState "availableModels"
  selectedModels,     \* useState "selectedModels"
  modelsFetch,        \* position of fetchAvailableModels: "pending" | "done"
  loading,            \* useState "loading"
  error,              \* useState "error"
  comparisonResults,  \* useState "comparisonResults" (<<>> is null)
  showComparison,     \* useState "showComparison"
  chats,              \* useState "chats"
  activeChatId,       \* useState "activeChatId" (0 is null)
  allEstimates,       \* useState "allEstimates"
  now,                \* Date.now()
  pc,                 \* position of handleSingleEstimate: "idle" | "fetch" | "json" | "text"
  exit,               \* the return path the last call of handleSingleEstimate took
  cInput,             \* the values the running call closed over at its start
  cModels,
  cChats,
  cActiveChatId,
  idx,                \* index into filteredModels of the iteration in progress
  issued,             \* the model names a fetch of /estimate was issued for, in order
  responses,          \* what each settled iteration of the round received and logged
  bestModel,          \* locals of handleSingleEstimate
  bestResult,
  bestScore,
  roundResults,       \* the local comparisonResults of handleSingleEstimate
  rounds,             \* number of rounds started so far
  inFlight,           \* number of handler calls suspended on an await
  nIn,                \* accuracy normalisation on its own: the raw input,
  nNorm,              \*   accuracyNormalized,
  nDisp,              \*   accuracyDisplay,
  nFmt,               \*   formatPercentage (in tenths of a percent)
  server,             \* the bodies POST /estimate may answer with
  catalog,            \* the bodies GET /models may answer with
  modelsData,         \* data.models of the last answer of GET /models
  selectedMode,       \* useState "selectedMode"
  dStats,             \* Dashboard: useState "stats"
  dSeen,              \* Dashboard: the estimates its effect last ran for
  clicks              \* number of clicks on the sidebar, the mode buttons and the model tags

vars == <<input, availableModels, selectedModels, modelsFetch, loading, error, comparisonResults,
          showComparison, chats, activeChatId, allEstimates, now, pc, exit,
          cInput, cModels, cChats, cActiveChatId, idx, issued, responses,
          bestModel, bestResult, bestScore, roundResults, rounds, inFlight,
          nIn, nNorm, nDisp, nFmt, server, catalog, modelsData, selectedMode, dStats, dSeen,
          clicks>>

uiVars == <<input, availableModels, selectedModels, modelsFetch, loading, error, comparisonResults,
            showComparison, chats, activeChatId, allEstimates, now>>

roundVars == <<pc, exit, cInput, cModels, cChats, cActiveChatId, idx, issued,
               responses, bestModel, bestResult, bestScore, roundResults, rounds, inFlight>>

normVars == <<nIn, nNorm, nDisp, nFmt>>

envVars == <<server, catalog, modelsData>>

dashVars == <<selectedMode, dStats, dSeen>>

----------------------------------------------------------------------------
(* Bounds and units *)

MaxRounds == 2

\* the raw accuracies tried go down to -MaxUnder/200 and up to 100 + MaxOver/2
MaxUnder == 4

MaxOver == 100

\* the longest history given to the Dashboard on its own
MaxHistory == 3

\* the most clicks on the sidebar, the mode buttons and the model tags
MaxClicks == 2

Hundred == 100

Unit == 1000 * 1000

----------------------------------------------------------------------------
(* JavaScript values *)

Undefined == <<>>

Some(v) == <<v>>

\* JavaScript truthiness of an optional number: undefined, null and 0 are falsy.
Truthy(x) == x # <<>> /\ x[1] # 0

\* a || b
OrElse(a, b) == IF Truthy(a) THEN a ELSE b

----------------------------------------------------------------------------
(* Configuration and inputs *)

MODEL_WHITELIST == <<"gemini-2.0-flash", "mistral-7b-openrouter", "nvidia-qwen-coder">>

InWhitelist(m) == \E i \in 1..Len(MODEL_WHITELIST) : MODEL_WHITELIST[i] = m

imageKeywords == {"image", "picture", "photo", "draw", "visualize"}

Whitespace == {" "}

\* The prompts the user types: sequences of tokens, a token being a word or a blank.
Prompts ==
  { <<>>, <<" ">>, <<"write", " ", "code">>, <<"draw", " ", "cat">> }

\* The bodies of GET /models: data.models as its keys in order, each with api_available.
ModelsResponses ==
  { << [name |-> "gemini-2.0-flash", api_available |-> TRUE],
       [name |-> "mistral-7b-openrouter", api_available |-> TRUE],
       [name |-> "nvidia-qwen-coder", api_available |-> TRUE] >>,
    << [name |-> "nvidia-qwen-coder", api_available |-> TRUE],
       [name |-> "gpt-4", api_available |-> TRUE],
       [name |-> "mistral-7b-openrouter", api_available |-> FALSE],
       [name |-> "gemini-2.0-flash", api_available |-> TRUE] >>,
    << [name |-> "gemini-2.0-flash", api_available |-> FALSE] >> }

\* The bodies of a successful POST /estimate, without the model name:
\*  - 0.000067 kg and an accuracy given as the fraction 0.77;
\*  - 0.000062 kg, also given as 0.062 g, and a nested accuracy of 76 (percent);
\*  - 0.067 g (the same 0.000067 kg) given in grams only, accuracy 77 (percent);
\*  - 0.000062 kg and no accuracy.
ResultSamples ==
  { [carbon_emitted_kgco2 |-> Some(67), carbon_emitted_grams |-> Undefined,
     accuracy_scores |-> Undefined, overall_accuracy |-> Some(770000),
     energy_consumed_kwh |-> Undefined, total_tokens |-> Undefined, response_text |-> ""],
    [carbon_emitted_kgco2 |-> Some(62), carbon_emitted_grams |-> Some(62000),
     accuracy_scores |-> Some([overall_accuracy |-> Some(76 * Unit)]),
     overall_accuracy |-> Undefined,
     energy_consumed_kwh |-> Some(130), total_tokens |-> Some(110), response_text |-> "b"],
    [carbon_emitted_kgco2 |-> Undefined, carbon_emitted_grams |-> Some(67000),
     accuracy_scores |-> Undefined, overall_accuracy |-> Some(77 * Unit),
     energy_consumed_kwh |-> Some(140), total_tokens |-> Some(120), response_text |-> "g"],
    [carbon_emitted_kgco2 |-> Some(62), carbon_emitted_grams |-> Undefined,
     accuracy_scores |-> Some([overall_accuracy |-> Undefined]),
     overall_accuracy |-> Undefined,
     energy_consumed_kwh |-> Some(130), total_tokens |-> Some(110), response_text |-> "n"] }

\* The body of the response to a request for modelName.
ResultFor(modelName, sample) ==
  [model_name |-> modelName,
   carbon_emitted_kgco2 |-> sample.carbon_emitted_kgco2,
   carbon_emitted_grams |-> sample.carbon_emitted_grams,
   accuracy_scores |-> sample.accuracy_scores,
   overall_accuracy |-> sample.overall_accuracy,
   energy_consumed_kwh |-> sample.energy_consumed_kwh,
   total_tokens |-> sample.total_tokens,
   response_text |-> sample.response_text]

----------------------------------------------------------------------------
(* Pure functions of ChatCarbon.jsx and Dashboard.jsx *)

RECURSIVE TrimStart(_)
TrimStart(s) ==
  IF s # <<>> /\ Head(s) \in Whitespace THEN TrimStart(Tail(s)) ELSE s

RECURSIVE TrimEnd(_)
TrimEnd(s) ==
  IF s # <<>> /\ s[Len(s)] \in Whitespace THEN TrimEnd(SubSeq(s, 1, Len(s) - 1)) ELSE s

\* String.prototype.trim
Trim(s) == TrimEnd(TrimStart(s))

detectPromptType(prompt) ==
  IF \E i \in 1..Len(prompt) : prompt[i] \in imageKeywords THEN "image" ELSE "text"

SliceLen == 30

\* input.slice(0, 30) + "..."
ChatTitle(prompt) ==
  SubSeq(prompt, 1, IF Len(prompt) < SliceLen THEN Len(prompt) ELSE SliceLen) \o <<"...">>

\* variant: every model of the answer is kept
FilterModelsKeepsAll(models) == [i \in 1..Len(models) |-> models[i].name]

\* models.filter(m => MODEL_WHITELIST.includes(m) && data.models[m].api_available)
RECURSIVE FilterModels(_)
FilterModels(models) ==
  IF models = <<>> THEN <<>>
  ELSE IF InWhitelist(Head(models).name) /\ Head(models).api_available
       THEN <<Head(models).name>> \o FilterModels(Tail(models))
       ELSE FilterModels(Tail(models))

\* filteredModels.slice(0, 3)
FirstThree(s) == SubSeq(s, 1, IF Len(s) < 3 THEN Len(s) ELSE 3)

\* result.carbon_emitted_kgco2 || result.carbon_emitted_grams || 0
CarbonOf(result) ==
  OrElse(OrElse(result.carbon_emitted_kgco2, result.carbon_emitted_grams), Some(0))[1]

\* result.accuracy_scores?.overall_accuracy
NestedAccuracy(result) ==
  IF result.accuracy_scores = Undefined THEN Undefined
  ELSE result.accuracy_scores[1].overall_accuracy

\* variant: a missing accuracy counts as 1
AccuracyOfDefaultOne(result) ==
  OrElse(OrElse(NestedAccuracy(result), result.overall_accuracy), Some(Unit))[1]

\* result.accuracy_scores?.overall_accuracy || result.overall_accuracy || 0
AccuracyOf(result) ==
  OrElse(OrElse(NestedAccuracy(result), result.overall_accuracy), Some(0))[1]

\* accuracy > 1 ? accuracy / 100 : accuracy
AccuracyNormalized(accuracy) ==
  IF accuracy > Unit THEN accuracy \div Hundred ELSE accuracy

\* variant: the boundary value 1 is passed through as a percentage
AccuracyDisplayFromOne(accuracy) ==
  IF accuracy >= Unit THEN accuracy ELSE accuracy * Hundred

\* accuracy > 1 ? accuracy : accuracy * 100
AccuracyDisplay(accuracy) ==
  IF accuracy > Unit THEN accuracy ELSE accuracy * Hundred

\* variant: the score is the carbon alone
ScoreCarbonOnly(carbon, accuracyNormalized) == carbon

\* carbon + (1 - accuracyNormalized)
Score(carbon, accuracyNormalized) == carbon + (Unit - accuracyNormalized)

ScoreOf(result) == Score(CarbonOf(result), AccuracyNormalized(AccuracyOf(result)))

\* variant: the comparison is reversed
BetterReversed(score, best) == best = Undefined \/ score > best[1]

\* variant: a later candidate with an equal score replaces the best
BetterOrEqual(score, best) == best = Undefined \/ score <= best[1]

\* score < bestScore, bestScore being Number.POSITIVE_INFINITY until one is set
Better(score, best) == best = Undefined \/ score < best[1]

\* Number.prototype.toFixed(1), as a number of tenths
ToFixed1(x) ==
  IF x >= 0 THEN (x + (Unit \div 20)) \div (Unit \div 10)
  ELSE 0 - (((0 - x) + (Unit \div 20)) \div (Unit \div 10))

\* Dashboard.jsx formatPercentage
formatPercentage(val) ==
  IF val > Unit THEN ToFixed1(val) ELSE ToFixed1(val * Hundred)

\* { model: modelName, carbon, accuracy: accuracyDisplay }
ComparisonEntry(modelName, result) ==
  [model |-> modelName, carbon |-> CarbonOf(result),
   accuracy |-> AccuracyDisplay(AccuracyOf(result))]

\* variant: comparisonResults.unshift(entry)
PushEntryFront(list, entry) == <<entry>> \o list

\* comparisonResults.push(entry)
PushEntry(list, entry) == Append(list, entry)

\* variant: the result is added twice
AppendEstimateTwice(prev, result) == prev \o <<result, result>>

\* variant: setAllEstimates([bestResult])
AppendEstimateAlone(prev, result) == <<result>>

\* prev => [...prev, bestResult]
AppendEstimate(prev, result) == Append(prev, result)

\* bestResult.accuracy_scores || bestResult.overall_accuracy || {}
MessageAccuracy(result) ==
  IF result.accuracy_scores # Undefined THEN result.accuracy_scores
  ELSE IF Truthy(result.overall_accuracy) THEN result.overall_accuracy
  ELSE Undefined

\* the message handleSingleEstimate adds to the chat
EstimateMessage(id, prompt, model, result) ==
  [id |-> id, type |-> "estimate", prompt |-> prompt, model |-> model,
   carbon |-> CarbonOf(result),
   energy |-> OrElse(result.energy_consumed_kwh, Some(0))[1],
   tokens |-> OrElse(result.total_tokens, Some(0))[1],
   accuracy |-> MessageAccuracy(result),
   response_text |-> result.response_text]

\* prev.map(c => c.id === chatId ? { ...c, messages: [...c.messages, message] } : c)
AddMessage(prev, chatId, message) ==
  [i \in 1..Len(prev) |->
     IF prev[i].id = chatId
     THEN [prev[i] EXCEPT !.messages = Append(@, message)]
     ELSE prev[i]]

----------------------------------------------------------------------------
(* Pure functions of Dashboard.jsx: calculateStats *)

\* all of a list but its last element
Front(list) == SubSeq(list, 1, Len(list) - 1)

\* e.carbon_emitted_kgco2 || 0
EntryCarbon(e) == OrElse(e.carbon_emitted_kgco2, Some(0))[1]

\* e.energy_consumed_kwh || 0
EntryEnergy(e) == OrElse(e.energy_consumed_kwh, Some(0))[1]

\* e.overall_accuracy, or e.accuracy_scores?.overall_accuracy when that is
\* undefined or null
EntryAccuracy(e) ==
  IF e.overall_accuracy # Undefined THEN e.overall_accuracy ELSE NestedAccuracy(e)

\* accuracy && accuracy >= 0 && accuracy <= 100
ValidAccuracy(accuracy) ==
  Truthy(accuracy) /\ accuracy[1] >= 0 /\ accuracy[1] <= Hundred * Unit

\* e.model_name || e.model || "unknown"
ModelNameOf(e) ==
  IF "model_name" \in DOMAIN e /\ e.model_name # "" THEN e.model_name
  ELSE IF "model" \in DOMAIN e /\ e.model # "" THEN e.model
  ELSE "unknown"

AddCarbon(sum, e) == sum + EntryCarbon(e)

\* estimates.reduce((sum, e) => sum + (e.carbon_emitted_kgco2 || 0), 0), left to right
RECURSIVE SumCarbon(_)
SumCarbon(estimates) ==
  IF estimates = <<>> THEN 0
  ELSE AddCarbon(SumCarbon(Front(estimates)), estimates[Len(estimates)])

AddEnergy(sum, e) == sum + EntryEnergy(e)

\* estimates.reduce((sum, e) => sum + (e.energy_consumed_kwh || 0), 0)
RECURSIVE SumEnergy(_)
SumEnergy(estimates) ==
  IF estimates = <<>> THEN 0
  ELSE AddEnergy(SumEnergy(Front(estimates)), estimates[Len(estimates)])

\* .map(...).filter(acc => acc !== null)
RECURSIVE ValidAccuracies(_)
ValidAccuracies(estimates) ==
  IF estimates = <<>> THEN <<>>
  ELSE IF ValidAccuracy(EntryAccuracy(Head(estimates)))
       THEN <<EntryAccuracy(Head(estimates))[1]>> \o ValidAccuracies(Tail(estimates))
       ELSE ValidAccuracies(Tail(estimates))

\* variant: a running mean instead of a sum
AddNumberRunningMean(sum, acc) == (sum + acc) \div 2

AddNumber(sum, x) == sum + x

\* validAccuracies.length > 0 ? totalAccuracy / validAccuracies.length : 0
\* variant: the division is not guarded; -1 stands for the NaN of 0 / 0
AverageUnguarded(total, count) == IF count > 0 THEN total \div count ELSE 0 - 1

Average(total, count) == IF count > 0 THEN total \div count ELSE 0

\* the place of modelName among the keys of modelBreakdown, 0 when it is no key
KeyIndex(breakdown, modelName) ==
  IF \E i \in 1..Len(breakdown) : breakdown[i].name = modelName
  THEN CHOOSE i \in 1..Len(breakdown) : breakdown[i].name = modelName
  ELSE 0

EmptyBreakdownEntry(modelName) ==
  [name |-> modelName, count |-> 0, totalCarbon |-> 0, totalEnergy |-> 0,
   totalAccuracy |-> 0, accuracyCount |-> 0]

\* variant: an absent or invalid accuracy is counted as an accuracy of 0
CountEstimateCoerces(entry, e) ==
  [name |-> entry.name,
   count |-> entry.count + 1,
   totalCarbon |-> entry.totalCarbon + EntryCarbon(e),
   totalEnergy |-> entry.totalEnergy + EntryEnergy(e),
   totalAccuracy |-> IF ValidAccuracy(EntryAccuracy(e))
                     THEN entry.totalAccuracy + EntryAccuracy(e)[1]
                     ELSE entry.totalAccuracy,
   accuracyCount |-> entry.accuracyCount + 1]

\* lines 57-70: the entry of the model after one more estimate
CountEstimate(entry, e) ==
  [name |-> entry.name,
   count |-> entry.count + 1,
   totalCarbon |-> entry.totalCarbon + EntryCarbon(e),
   totalEnergy |-> entry.totalEnergy + EntryEnergy(e),
   totalAccuracy |-> IF ValidAccuracy(EntryAccuracy(e))
                     THEN entry.totalAccuracy + EntryAccuracy(e)[1]
                     ELSE entry.totalAccuracy,
   accuracyCount |-> IF ValidAccuracy(EntryAccuracy(e))
                     THEN entry.accuracyCount + 1
                     ELSE entry.accuracyCount]

\* variant: the entry of a model seen before is started again
BreakdownStepRestarts(breakdown, e) ==
  LET k == KeyIndex(breakdown, ModelNameOf(e))
  IN IF k = 0
     THEN Append(breakdown, CountEstimate(EmptyBreakdownEntry(ModelNameOf(e)), e))
     ELSE [breakdown EXCEPT ![k] = CountEstimate(EmptyBreakdownEntry(ModelNameOf(e)), e)]

\* the body of estimates.forEach: modelBreakdown, its keys in insertion order
BreakdownStep(breakdown, e) ==
  LET k == KeyIndex(breakdown, ModelNameOf(e))
  IN IF k = 0
     THEN Append(breakdown, CountEstimate(EmptyBreakdownEntry(ModelNameOf(e)), e))
     ELSE [breakdown EXCEPT ![k] = CountEstimate(@, e)]

\* an entry of topModels
TopModel(data) ==
  [name |-> data.name,
   count |-> data.count,
   carbonPerRequest |-> data.totalCarbon \div data.count,
   accuracyAvg |-> Average(data.totalAccuracy, data.accuracyCount)]

\* one entry put in its place in a list sorted by count, largest first, after
\* the entries of the same count
RECURSIVE InsertByCount(_, _)
InsertByCount(sorted, m) ==
  IF sorted = <<>> THEN <<m>>
  ELSE IF Head(sorted).count >= m.count
       THEN <<Head(sorted)>> \o InsertByCount(Tail(sorted), m)
       ELSE <<m>> \o sorted

\* variant: the list is left in the order of the keys
SortByCountSkipped(list) == list

\* .sort((a, b) => b.count - a.count), a stable sort
RECURSIVE SortByCount(_)
SortByCount(list) ==
  IF list = <<>> THEN <<>>
  ELSE InsertByCount(SortByCount(Front(list)), list[Len(list)])

\* validAccuracies.reduce((sum, acc) => sum + acc, 0)
RECURSIVE SumNumbers(_)
SumNumbers(numbers) ==
  IF numbers = <<>> THEN 0
  ELSE AddNumber(SumNumbers(Front(numbers)), numbers[Len(numbers)])

\* estimates.forEach(e => { ... }) over an empty modelBreakdown
RECURSIVE Breakdown(_)
Breakdown(estimates) ==
  IF estimates = <<>> THEN <<>>
  ELSE BreakdownStep(Breakdown(Front(estimates)), estimates[Len(estimates)])

calculateStats(estimates) ==
  LET validAccuracies == ValidAccuracies(estimates)
      totalAccuracy == SumNumbers(validAccuracies)
      modelBreakdown == Breakdown(estimates)
  IN [totalRequests |-> Len(estimates),
      totalCarbon |-> SumCarbon(estimates),
      averageAccuracy |-> Average(totalAccuracy, Len(validAccuracies)),
      totalEnergy |-> SumEnergy(estimates),
      modelBreakdown |-> modelBreakdown,
      topModels |-> SortByCount([i \in 1..Len(modelBreakdown) |-> TopModel(modelBreakdown[i])])]

ImageMsg == "Image generation will be available soon."

NoModelsMsg == "No supported text generation models are available."

NoResultsMsg == "No successful results from any model. Please check your API keys and ensure models are available."

ModelsFailedMsg == "Failed to load available models"

----------------------------------------------------------------------------
(* Initial state: the component after its first render, GET /models in flight *)

InitUi ==
  /\ input = <<>>
  /\ availableModels = <<>>
  /\ selectedModels = <<"gemini-2.0-flash">>
  /\ modelsFetch = "pending"
  /\ loading = FALSE
  /\ error = ""
  /\ comparisonResults = Undefined
  /\ showComparison = FALSE
  /\ chats = <<>>
  /\ activeChatId = 0
  /\ allEstimates = <<>>
  /\ now = 1

InitRound ==
  /\ pc = "idle"
  /\ exit = "none"
  /\ cInput = <<>>
  /\ cModels = <<>>
  /\ cChats = <<>>
  /\ cActiveChatId = 0
  /\ idx = 0
  /\ issued = <<>>
  /\ responses = <<>>
  /\ bestModel = ""
  /\ bestResult = Undefined
  /\ bestScore = Undefined
  /\ roundResults = <<>>
  /\ rounds = 0
  /\ inFlight = 0

InitNormIdle ==
  /\ nIn = 0
  /\ nNorm = Undefined
  /\ nDisp = Undefined
  /\ nFmt = Undefined

\* Dashboard.jsx, lines 5-12: the stats of a Dashboard just mounted
InitialStats ==
  [totalRequests |-> 0, totalCarbon |-> 0, averageAccuracy |-> 0, totalEnergy |-> 0,
   modelBreakdown |-> <<>>, topModels |-> <<>>]

InitModels == modelsData = Undefined

InitDash ==
  /\ clicks = 0
  /\ selectedMode = "single"
  /\ dStats = InitialStats
  /\ dSeen = Undefined

Init ==
  /\ InitUi /\ InitRound /\ InitNormIdle /\ InitModels /\ InitDash
  /\ server = ResultSamples
  /\ catalog = ModelsResponses

----------------------------------------------------------------------------
(* fetchAvailableModels *)

FetchModelsOk ==
  /\ modelsFetch = "pending"
  /\ \E data \in catalog :
       /\ availableModels' = FilterModels(data)
       /\ selectedModels' = FirstThree(FilterModels(data))
       /\ modelsData' = Some(data)
  /\ modelsFetch' = "done"
  /\ UNCHANGED <<input, loading, error, comparisonResults, showComparison, chats,
                 activeChatId, allEstimates, now>>
  /\ UNCHANGED roundVars
  /\ UNCHANGED <<normVars, server, catalog, dashVars, clicks>>

FetchModelsFail ==
  /\ modelsFetch = "pending"
  /\ error' = ModelsFailedMsg
  /\ availableModels' = <<>>
  /\ modelsFetch' = "done"
  /\ UNCHANGED <<input, selectedModels, loading, comparisonResults, showComparison,
                 chats, activeChatId, allEstimates, now>>
  /\ UNCHANGED roundVars
  /\ UNCHANGED <<normVars, envVars, dashVars, clicks>>

(* the textarea's onChange; the textarea is disabled while loading *)
SetInput ==
  /\ ~loading
  /\ selectedMode # "dashboard"
  /\ \E p \in Prompts : input' = p
  /\ input' # input
  /\ UNCHANGED <<availableModels, selectedModels, modelsFetch, loading, error,
                 comparisonResults, showComparison, chats, activeChatId, allEstimates, now>>
  /\ UNCHANGED roundVars
  /\ UNCHANGED <<normVars, envVars, dashVars, clicks>>

----------------------------------------------------------------------------
(* handleSingleEstimate, up to its first await *)

\* variant: the Estimate button is not disabled while loading
CanStartWhileLoading == rounds < MaxRounds /\ selectedMode = "single"

\* the Estimate button is rendered in single mode and disabled while loading
CanStart == ~loading /\ rounds < MaxRounds /\ selectedMode = "single"

\* if (!input.trim()) return;
EstimateEmpty ==
  /\ CanStart
  /\ Trim(input) = <<>>
  /\ exit' = "empty"
  /\ UNCHANGED uiVars
  /\ UNCHANGED <<pc, cInput, cModels, cChats, cActiveChatId, idx, issued, responses,
                 bestModel, bestResult, bestScore, roundResults, rounds, inFlight>>
  /\ UNCHANGED <<normVars, envVars, dashVars, clicks>>

\* promptType === "image"
EstimateImage ==
  /\ CanStart
  /\ Trim(input) # <<>>
  /\ detectPromptType(input) = "image"
  /\ error' = ImageMsg
  /\ loading' = FALSE
  /\ exit' = "image"
  /\ rounds' = rounds + 1
  /\ UNCHANGED <<input, availableModels, selectedModels, modelsFetch, comparisonResults,
                 showComparison, chats, activeChatId, allEstimates, now>>
  /\ UNCHANGED <<pc, cInput, cModels, cChats, cActiveChatId, idx, issued, responses,
                 bestModel, bestResult, bestScore, roundResults, inFlight>>
  /\ UNCHANGED <<normVars, envVars, dashVars, clicks>>

\* filteredModels.length === 0
EstimateNoModels ==
  /\ CanStart
  /\ Trim(input) # <<>>
  /\ detectPromptType(input) = "text"
  /\ Len(availableModels) = 0
  /\ error' = NoModelsMsg
  /\ loading' = FALSE
  /\ exit' = "nomodels"
  /\ rounds' = rounds + 1
  /\ UNCHANGED <<input, availableModels, selectedModels, modelsFetch, comparisonResults,
                 showComparison, chats, activeChatId, allEstimates, now>>
  /\ UNCHANGED <<pc, cInput, cModels, cChats, cActiveChatId, idx, issued, responses,
                 bestModel, bestResult, bestScore, roundResults, inFlight>>
  /\ UNCHANGED <<normVars, envVars, dashVars, clicks>>

\* the loop is entered: the first fetch is issued and the call suspends on it
EstimateDispatch ==
  /\ CanStart
  /\ Trim(input) # <<>>
  /\ detectPromptType(input) = "text"
  /\ Len(availableModels) > 0
  /\ loading' = TRUE
  /\ error' = ""
  /\ cInput' = input
  /\ cModels' = availableModels
  /\ cChats' = chats
  /\ cActiveChatId' = activeChatId
  /\ bestModel' = availableModels[1]
  /\ bestResult' = Undefined
  /\ bestScore' = Undefined
  /\ roundResults' = <<>>
  /\ responses' = <<>>
  /\ idx' = 1
  /\ issued' = <<availableModels[1]>>
  /\ pc' = "fetch"
  /\ exit' = "running"
  /\ rounds' = rounds + 1
  /\ inFlight' = inFlight + 1
  /\ UNCHANGED <<input, availableModels, selectedModels, modelsFetch, comparisonResults,
                 showComparison, chats, activeChatId, allEstimates, now>>
  /\ UNCHANGED <<normVars, envVars, dashVars, clicks>>

----------------------------------------------------------------------------
(* handleSingleEstimate, from the settling of an await to the next await or   *)
(* to its return                                                              *)

\* variant: `break` in place of `continue`
BreakLoop(i, n) == n + 1

\* `continue` in the loop over the n filteredModels: the iteration after i
ContinueLoop(i, n) == i + 1

\* if (!bestResult)
NoWinner(best) == best = Undefined

\* the chat the message goes to: activeChatId as closed over, or the new chat's id
TargetChatId == IF cActiveChatId = 0 THEN now ELSE cActiveChatId

newChat == [id |-> now, title |-> ChatTitle(cInput), messages |-> <<>>]

\* setChats([...chats, newChat]) when there was no active chat, then the updater
\* of setChats(prev => prev.map(...)) applied to the outcome
ChatsAfterRound(message) ==
  AddMessage(IF cActiveChatId = 0 THEN Append(cChats, newChat) ELSE chats,
             TargetChatId, message)

\* variant: the all-failed case is thrown and lands in the outer catch
FinishNoWinnerThrown ==
  /\ error' = "An unexpected error occurred"
  /\ loading' = FALSE
  /\ exit' = "exception"
  /\ pc' = "idle"
  /\ inFlight' = inFlight - 1
  /\ UNCHANGED <<input, availableModels, selectedModels, modelsFetch, comparisonResults,
                 showComparison, chats, activeChatId, allEstimates, now>>

\* variant: the all-failed return clears the prompt as the winner's tail does
FinishNoWinnerClearsInput ==
  /\ error' = NoResultsMsg
  /\ loading' = FALSE
  /\ input' = <<>>
  /\ exit' = "allfailed"
  /\ pc' = "idle"
  /\ inFlight' = inFlight - 1
  /\ UNCHANGED <<availableModels, selectedModels, modelsFetch, comparisonResults,
                 showComparison, chats, activeChatId, allEstimates, now>>

\* variant: the all-failed return leaves loading as it is
FinishNoWinnerStillLoading ==
  /\ error' = NoResultsMsg
  /\ exit' = "allfailed"
  /\ pc' = "idle"
  /\ inFlight' = inFlight - 1
  /\ UNCHANGED <<input, availableModels, selectedModels, modelsFetch, loading,
                 comparisonResults, showComparison, chats, activeChatId, allEstimates, now>>

\* lines 147-151: no successful result
FinishNoWinner ==
  /\ error' = NoResultsMsg
  /\ loading' = FALSE
  /\ exit' = "allfailed"
  /\ pc' = "idle"
  /\ inFlight' = inFlight - 1
  /\ UNCHANGED <<input, availableModels, selectedModels, modelsFetch, comparisonResults,
                 showComparison, chats, activeChatId, allEstimates, now>>

\* lines 153-203: the winner is shown, stored in the chat and in allEstimates
FinishWinner(bm, br, rr) ==
  /\ comparisonResults' = Some(rr)
  /\ showComparison' = TRUE
  /\ activeChatId' = IF cActiveChatId = 0 THEN now ELSE activeChatId
  /\ chats' = ChatsAfterRound(EstimateMessage(now, cInput, bm, br[1]))
  /\ allEstimates' = AppendEstimate(allEstimates, br[1])
  /\ input' = <<>>
  /\ loading' = FALSE
  /\ now' = now + 1
  /\ exit' = "winner"
  /\ pc' = "idle"
  /\ inFlight' = inFlight - 1
  /\ UNCHANGED <<availableModels, selectedModels, modelsFetch, error>>

\* the loop goes on with iteration next, or ends
LoopTo(next, bm, br, bs, rr, resp) ==
  /\ bestModel' = bm
  /\ bestResult' = br
  /\ bestScore' = bs
  /\ roundResults' = rr
  /\ responses' = resp
  /\ UNCHANGED <<cInput, cModels, cChats, cActiveChatId, rounds>>
  /\ UNCHANGED <<normVars, envVars, dashVars, clicks>>
  /\ IF next <= Len(cModels)
     THEN /\ idx' = next
          /\ issued' = Append(issued, cModels[next])
          /\ pc' = "fetch"
          /\ UNCHANGED <<exit, inFlight>>
          /\ UNCHANGED uiVars
     ELSE /\ UNCHANGED <<idx, issued>>
          /\ IF NoWinner(br) THEN FinishNoWinner ELSE FinishWinner(bm, br, rr)

\* an iteration that ends in `continue`: nothing is recorded but the console line
Failed ==
  LoopTo(ContinueLoop(idx, Len(cModels)), bestModel, bestResult, bestScore, roundResults,
         Append(responses, [model |-> cModels[idx], ok |-> FALSE, result |-> Undefined,
                            score |-> 0]))

\* `await fetch(...)` rejects: the catch of the iteration, continue
FetchThrows ==
  /\ pc = "fetch"
  /\ Failed

\* `await fetch(...)` resolves, response.ok is false: await response.text()
FetchNotOk ==
  /\ pc = "fetch"
  /\ pc' = "text"
  /\ UNCHANGED uiVars
  /\ UNCHANGED <<exit, cInput, cModels, cChats, cActiveChatId, idx, issued, responses,
                 bestModel, bestResult, bestScore, roundResults, rounds, inFlight>>
  /\ UNCHANGED <<normVars, envVars, dashVars, clicks>>

\* `await response.text()` settles (resolved or rejected): continue
TextSettles ==
  /\ pc = "text"
  /\ Failed

\* `await fetch(...)` resolves, response.ok is true: await response.json()
FetchOk ==
  /\ pc = "fetch"
  /\ pc' = "json"
  /\ UNCHANGED uiVars
  /\ UNCHANGED <<exit, cInput, cModels, cChats, cActiveChatId, idx, issued, responses,
                 bestModel, bestResult, bestScore, roundResults, rounds, inFlight>>
  /\ UNCHANGED <<normVars, envVars, dashVars, clicks>>

\* `await response.json()` rejects: the catch of the iteration, continue
JsonThrows ==
  /\ pc = "json"
  /\ Failed

\* lines 120-140: the result is scored, recorded and compared with the best so far
Scored(result) ==
  LET modelName == cModels[idx]
      score == ScoreOf(result)
      wins == Better(score, bestScore)
  IN LoopTo(idx + 1,
            IF wins THEN modelName ELSE bestModel,
            IF wins THEN Some(result) ELSE bestResult,
            IF wins THEN Some(score) ELSE bestScore,
            PushEntry(roundResults, ComparisonEntry(modelName, result)),
            Append(responses, [model |-> modelName, ok |-> TRUE, result |-> Some(result),
                               score |-> score]))

JsonOk ==
  /\ pc = "json"
  /\ \E sample \in server : Scored(ResultFor(cModels[idx], sample))

----------------------------------------------------------------------------

Next ==
  \/ FetchModelsOk
  \/ FetchModelsFail
  \/ SetInput
  \/ EstimateEmpty
  \/ EstimateImage
  \/ EstimateNoModels
  \/ EstimateDispatch
  \/ FetchThrows
  \/ FetchNotOk
  \/ TextSettles
  \/ FetchOk
  \/ JsonThrows
  \/ JsonOk

Spec == Init /\ [][Next]_vars

----------------------------------------------------------------------------
(* The round of the guide's example: the server answers with the three       *)
(* candidates of "How Model Selection Works"                                 *)

\* candidate A: 0.000067 kg, accuracy 77
CandidateA ==
  [carbon_emitted_kgco2 |-> Some(67), carbon_emitted_grams |-> Undefined,
   accuracy_scores |-> Undefined, overall_accuracy |-> Some(77 * Unit),
   energy_consumed_kwh |-> Undefined, total_tokens |-> Undefined, response_text |-> "a"]

\* candidate B: 0.000062 kg, accuracy 76
CandidateB ==
  [carbon_emitted_kgco2 |-> Some(62), carbon_emitted_grams |-> Undefined,
   accuracy_scores |-> Undefined, overall_accuracy |-> Some(76 * Unit),
   energy_consumed_kwh |-> Undefined, total_tokens |-> Undefined, response_text |-> "b"]

\* candidate C: 0.000067 kg, accuracy 72
CandidateC ==
  [carbon_emitted_kgco2 |-> Some(67), carbon_emitted_grams |-> Undefined,
   accuracy_scores |-> Undefined, overall_accuracy |-> Some(72 * Unit),
   energy_consumed_kwh |-> Undefined, total_tokens |-> Undefined, response_text |-> "c"]

InitExample ==
  /\ InitUi /\ InitRound /\ InitNormIdle /\ InitModels /\ InitDash
  /\ server = {CandidateA, CandidateB, CandidateC}
  /\ catalog = ModelsResponses

ExampleSpec == InitExample /\ [][Next]_vars

----------------------------------------------------------------------------
(* Accuracy normalisation on its own: one raw accuracy, taken through        *)
(* accuracyNormalized, accuracyDisplay and formatPercentage                  *)

\* fractions in steps of 0.005 and percentages in steps of 0.5
AccuracyInputs ==
  {f * (Unit \div 200) : f \in (0 - MaxUnder)..200}
    \cup {h * (Unit \div 2) : h \in 3..(200 + MaxOver)}

InitNorm ==
  /\ InitUi
  /\ InitRound
  /\ InitModels
  /\ InitDash
  /\ server = ResultSamples
  /\ catalog = ModelsResponses
  /\ nIn \in AccuracyInputs
  /\ nNorm = Undefined
  /\ nDisp = Undefined
  /\ nFmt = Undefined

NormalizeForScore ==
  /\ nNorm = Undefined
  /\ nNorm' = Some(AccuracyNormalized(nIn))
  /\ UNCHANGED <<nIn, nDisp, nFmt>>
  /\ UNCHANGED uiVars
  /\ UNCHANGED roundVars
  /\ UNCHANGED <<envVars, dashVars, clicks>>

NormalizeForDisplay ==
  /\ nDisp = Undefined
  /\ nDisp' = Some(AccuracyDisplay(nIn))
  /\ UNCHANGED <<nIn, nNorm, nFmt>>
  /\ UNCHANGED uiVars
  /\ UNCHANGED roundVars
  /\ UNCHANGED <<envVars, dashVars, clicks>>

FormatPercentage ==
  /\ nFmt = Undefined
  /\ nFmt' = Some(formatPercentage(nIn))
  /\ UNCHANGED <<nIn, nNorm, nDisp>>
  /\ UNCHANGED uiVars
  /\ UNCHANGED roundVars
  /\ UNCHANGED <<envVars, dashVars, clicks>>

NextNorm ==
  \/ NormalizeForScore
  \/ NormalizeForDisplay
  \/ FormatPercentage

NormSpec == InitNorm /\ [][NextNorm]_vars

----------------------------------------------------------------------------
(* The Dashboard on its own: a history that grows, the Dashboard mounted and *)
(* unmounted by the mode buttons, and its effect                             *)

\* Accepted results as the Dashboard may be given them:
\*  - gemini, 0.000067 kg, accuracy 77;
\*  - gemini, 0.000062 kg, accuracy exactly 0;
\*  - mistral, 0.000062 kg, a nested accuracy of exactly 100;
\*  - mistral, carbon in grams only, accuracy 150;
\*  - no model name, 0.000067 kg, no accuracy;
\*  - nvidia, no carbon, accuracy -5.
HistorySamples ==
  { [model_name |-> "gemini-2.0-flash",
     carbon_emitted_kgco2 |-> Some(67), carbon_emitted_grams |-> Undefined,
     accuracy_scores |-> Undefined, overall_accuracy |-> Some(77 * Unit),
     energy_consumed_kwh |-> Some(140), total_tokens |-> Some(120), response_text |-> "a"],
    [model_name |-> "gemini-2.0-flash",
     carbon_emitted_kgco2 |-> Some(62), carbon_emitted_grams |-> Undefined,
     accuracy_scores |-> Undefined, overall_accuracy |-> Some(0),
     energy_consumed_kwh |-> Some(130), total_tokens |-> Some(110), response_text |-> "z"],
    [model_name |-> "mistral-7b-openrouter",
     carbon_emitted_kgco2 |-> Some(62), carbon_emitted_grams |-> Some(62000),
     accuracy_scores |-> Some([overall_accuracy |-> Some(100 * Unit)]),
     overall_accuracy |-> Undefined,
     energy_consumed_kwh |-> Some(130), total_tokens |-> Some(110), response_text |-> "h"],
    [model_name |-> "mistral-7b-openrouter",
     carbon_emitted_kgco2 |-> Undefined, carbon_emitted_grams |-> Some(67000),
     accuracy_scores |-> Undefined, overall_accuracy |-> Some(150 * Unit),
     energy_consumed_kwh |-> Undefined, total_tokens |-> Some(120), response_text |-> "o"],
    [model_name |-> "",
     carbon_emitted_kgco2 |-> Some(67), carbon_emitted_grams |-> Undefined,
     accuracy_scores |-> Some([overall_accuracy |-> Undefined]),
     overall_accuracy |-> Undefined,
     energy_consumed_kwh |-> Some(140), total_tokens |-> Undefined, response_text |-> "n"],
    [model_name |-> "nvidia-qwen-coder",
     carbon_emitted_kgco2 |-> Some(0), carbon_emitted_grams |-> Undefined,
     accuracy_scores |-> Undefined, overall_accuracy |-> Some(0 - 5 * Unit),
     energy_consumed_kwh |-> Some(130), total_tokens |-> Some(110), response_text |-> "m"] }

Modes == {"single", "compare", "dashboard"}

\* one more click
Click == clicks < MaxClicks /\ clicks' = clicks + 1

\* variant: the new totals are added to the ones shown
SetStatsAccumulates(prev, computed) ==
  [computed EXCEPT !.totalRequests = prev.totalRequests + @,
                   !.totalCarbon = prev.totalCarbon + @,
                   !.totalEnergy = prev.totalEnergy + @]

\* setStats({ ... })
SetStats(prev, computed) == computed

\* ChatCarbon.jsx line 194, as the Dashboard sees it: estimates is a new,
\* longer array
HistoryGrows ==
  /\ Len(allEstimates) < MaxHistory
  /\ \E e \in HistorySamples : allEstimates' = AppendEstimate(allEstimates, e)
  /\ UNCHANGED <<input, availableModels, selectedModels, modelsFetch, loading, error,
                 comparisonResults, showComparison, chats, activeChatId, now>>
  /\ UNCHANGED <<roundVars, normVars, envVars, dashVars, clicks>>

\* the mode buttons; <Dashboard> is mounted while the mode is "dashboard"
SetMode ==
  /\ \E m \in Modes :
       /\ selectedMode' = m
       /\ showComparison' = IF m = "single" THEN FALSE ELSE showComparison
       /\ IF (m = "dashboard") # (selectedMode = "dashboard")
          THEN dStats' = InitialStats /\ dSeen' = Undefined
          ELSE UNCHANGED <<dStats, dSeen>>
  /\ UNCHANGED <<input, availableModels, selectedModels, modelsFetch, loading, error,
                 comparisonResults, chats, activeChatId, allEstimates, now>>
  /\ UNCHANGED <<roundVars, normVars, envVars>>
  /\ Click

\* useEffect(() => { if (estimates && estimates.length > 0) calculateStats() }, [estimates])
DashboardEffect ==
  /\ selectedMode = "dashboard"
  /\ dSeen # Some(allEstimates)
  /\ dSeen' = Some(allEstimates)
  /\ dStats' = IF Len(allEstimates) > 0
               THEN SetStats(dStats, calculateStats(allEstimates))
               ELSE dStats
  /\ UNCHANGED selectedMode
  /\ UNCHANGED <<uiVars, roundVars, normVars, envVars, clicks>>

NextDash ==
  \/ HistoryGrows
  \/ SetMode
  \/ DashboardEffect

DashSpec == Init /\ [][NextDash]_vars

----------------------------------------------------------------------------
(* The whole component: the auto-select round together with                  *)
(* handleCompareModels, the sidebar, the mode buttons and the model tags      *)

CompareRejectedMsg == "Select at least 2 models to compare"

FetchFailedMsg == "Failed to fetch"

ComparisonFailedMsg == "Comparison failed: 500"

\* The bodies of a successful POST /compare-models: a value the component only
\* stores and shows, given here as a list of one element.
CompareBodies == { << [recommended |-> "gemini-2.0-flash", results |-> <<>>] >> }

\* errorData.detail of a failed POST /compare-models; {} when the body is no JSON
ErrorDetails == { Undefined, Some("Model not available") }

\* What prompt("Enter new chat title:") returns: null, or the text typed.
RenameInputs == { Undefined, Some(<<" ">>), Some(<<"Work">>) }

NewChatTitle == <<"New", " ", "Chat">>

\* the server of the runs of the whole component: one body of POST /estimate
OneResult == { r \in ResultSamples : r.response_text = "b" }

\* and one body of GET /models: two models of the whitelist available
OneCatalog == { m \in ModelsResponses : Len(m) = 4 }

InitApp ==
  /\ InitUi /\ InitRound /\ InitNormIdle /\ InitModels /\ InitDash
  /\ server = OneResult
  /\ catalog = OneCatalog

\* the Compare button is rendered in compare mode and disabled while loading
CanCompare == ~loading /\ rounds < MaxRounds /\ selectedMode = "compare"

\* selectedModels.filter(m => m !== model)
RECURSIVE Without(_, _)
Without(models, model) ==
  IF models = <<>> THEN <<>>
  ELSE IF Head(models) = model THEN Without(Tail(models), model)
       ELSE <<Head(models)>> \o Without(Tail(models), model)

Includes(models, model) == \E i \in 1..Len(models) : models[i] = model

\* the message handleCompareModels adds to the chat
ComparisonMessage(id, prompt, models, result) ==
  [id |-> id, type |-> "comparison", prompt |-> prompt, models |-> models,
   results |-> result]

\* variant: the check comes after setLoading(true)
CompareRejectedAfterLoading ==
  /\ CanCompare
  /\ Trim(input) = <<>> \/ Len(selectedModels) < 2
  /\ loading' = TRUE
  /\ error' = CompareRejectedMsg
  /\ exit' = "cmp-rejected"
  /\ UNCHANGED <<input, availableModels, selectedModels, modelsFetch,
                 comparisonResults, showComparison, chats, activeChatId, allEstimates, now>>
  /\ UNCHANGED <<pc, cInput, cModels, cChats, cActiveChatId, idx, issued, responses,
                 bestModel, bestResult, bestScore, roundResults, rounds, inFlight>>
  /\ UNCHANGED <<normVars, envVars, dashVars, clicks>>

\* if (!input.trim() || selectedModels.length < 2) { setError(...); return; }
CompareRejected ==
  /\ CanCompare
  /\ Trim(input) = <<>> \/ Len(selectedModels) < 2
  /\ error' = CompareRejectedMsg
  /\ exit' = "cmp-rejected"
  /\ UNCHANGED <<input, availableModels, selectedModels, modelsFetch, loading,
                 comparisonResults, showComparison, chats, activeChatId, allEstimates, now>>
  /\ UNCHANGED <<pc, cInput, cModels, cChats, cActiveChatId, idx, issued, responses,
                 bestModel, bestResult, bestScore, roundResults, rounds, inFlight>>
  /\ UNCHANGED <<normVars, envVars, dashVars, clicks>>

\* lines 213-228: the request is issued and the call suspends on it
CompareDispatch ==
  /\ CanCompare
  /\ Trim(input) # <<>>
  /\ Len(selectedModels) >= 2
  /\ loading' = TRUE
  /\ error' = ""
  /\ cInput' = input
  /\ cModels' = selectedModels
  /\ cChats' = chats
  /\ cActiveChatId' = activeChatId
  /\ issued' = <<"/compare-models">>
  /\ pc' = "cmpFetch"
  /\ exit' = "cmp-running"
  /\ rounds' = rounds + 1
  /\ inFlight' = inFlight + 1
  /\ UNCHANGED <<input, availableModels, selectedModels, modelsFetch, comparisonResults,
                 showComparison, chats, activeChatId, allEstimates, now>>
  /\ UNCHANGED <<idx, responses, bestModel, bestResult, bestScore, roundResults>>
  /\ UNCHANGED <<normVars, envVars, dashVars, clicks>>

\* variant: the prompt is cleared on failure too
CompareFailsClearsInput(message) ==
  /\ error' = message
  /\ loading' = FALSE
  /\ input' = <<>>
  /\ pc' = "idle"
  /\ inFlight' = inFlight - 1
  /\ exit' = "cmp-failed"
  /\ UNCHANGED <<availableModels, selectedModels, modelsFetch, comparisonResults,
                 showComparison, chats, activeChatId, allEstimates, now>>
  /\ UNCHANGED <<cInput, cModels, cChats, cActiveChatId, idx, issued, responses,
                 bestModel, bestResult, bestScore, roundResults, rounds>>
  /\ UNCHANGED <<normVars, envVars, dashVars, clicks>>

\* catch (err) { setError(err.message) } finally { setLoading(false) }
CompareFails(message) ==
  /\ error' = message
  /\ loading' = FALSE
  /\ pc' = "idle"
  /\ inFlight' = inFlight - 1
  /\ exit' = "cmp-failed"
  /\ UNCHANGED <<input, availableModels, selectedModels, modelsFetch, comparisonResults,
                 showComparison, chats, activeChatId, allEstimates, now>>
  /\ UNCHANGED <<cInput, cModels, cChats, cActiveChatId, idx, issued, responses,
                 bestModel, bestResult, bestScore, roundResults, rounds>>
  /\ UNCHANGED <<normVars, envVars, dashVars, clicks>>

\* the call stays suspended, now on the await at position
CompareAwaits(position) ==
  /\ pc' = position
  /\ UNCHANGED uiVars
  /\ UNCHANGED <<exit, cInput, cModels, cChats, cActiveChatId, idx, issued, responses,
                 bestModel, bestResult, bestScore, roundResults, rounds, inFlight>>
  /\ UNCHANGED <<normVars, envVars, dashVars, clicks>>

\* `await fetch(...)` rejects
CompareFetchThrows ==
  /\ pc = "cmpFetch"
  /\ CompareFails(FetchFailedMsg)

\* response.ok is false: await response.json().catch(() => ({}))
CompareNotOk ==
  /\ pc = "cmpFetch"
  /\ CompareAwaits("cmpErrorJson")

\* throw new Error(errorData.detail || `Comparison failed: ${response.status}`)
CompareErrorThrown ==
  /\ pc = "cmpErrorJson"
  /\ \E detail \in ErrorDetails :
       CompareFails(IF detail = Undefined THEN ComparisonFailedMsg ELSE detail[1])

\* response.ok is true: await response.json()
CompareOk ==
  /\ pc = "cmpFetch"
  /\ CompareAwaits("cmpJson")

\* `await response.json()` rejects
CompareJsonThrows ==
  /\ pc = "cmpJson"
  /\ CompareFails("Unexpected token")

\* lines 238-270: the comparison is shown and stored in the chat
CompareJsonOk ==
  /\ pc = "cmpJson"
  /\ \E result \in CompareBodies :
       /\ comparisonResults' = Some(result)
       /\ chats' = ChatsAfterRound(ComparisonMessage(now, cInput, cModels, result))
  /\ showComparison' = TRUE
  /\ activeChatId' = IF cActiveChatId = 0 THEN now ELSE activeChatId
  /\ input' = <<>>
  /\ loading' = FALSE
  /\ now' = now + 1
  /\ pc' = "idle"
  /\ inFlight' = inFlight - 1
  /\ exit' = "cmp-done"
  /\ UNCHANGED <<availableModels, selectedModels, modelsFetch, error, allEstimates>>
  /\ UNCHANGED <<cInput, cModels, cChats, cActiveChatId, idx, issued, responses,
                 bestModel, bestResult, bestScore, roundResults, rounds>>
  /\ UNCHANGED <<normVars, envVars, dashVars, clicks>>

\* the New Chat button
handleNewChat ==
  /\ chats' = Append(chats, [id |-> now, title |-> NewChatTitle, messages |-> <<>>])
  /\ activeChatId' = now
  /\ showComparison' = FALSE
  /\ now' = now + 1
  /\ UNCHANGED <<input, availableModels, selectedModels, modelsFetch, loading, error,
                 comparisonResults, allEstimates>>
  /\ UNCHANGED <<roundVars, normVars, envVars, dashVars>>
  /\ Click

\* chats.filter(c => c.id !== id)
RECURSIVE WithoutChat(_, _)
WithoutChat(list, id) ==
  IF list = <<>> THEN <<>>
  ELSE IF Head(list).id = id THEN WithoutChat(Tail(list), id)
       ELSE <<Head(list)>> \o WithoutChat(Tail(list), id)

\* variant: the active chat is deleted without setActiveChatId(null)
deleteChatKeepsActive ==
  /\ \E i \in 1..Len(chats) : chats' = WithoutChat(chats, chats[i].id)
  /\ UNCHANGED <<input, availableModels, selectedModels, modelsFetch, loading, error,
                 comparisonResults, showComparison, activeChatId, allEstimates, now>>
  /\ UNCHANGED <<roundVars, normVars, envVars, dashVars>>
  /\ Click

\* the delete button of a chat of the sidebar
deleteChat ==
  /\ \E i \in 1..Len(chats) :
       /\ chats' = WithoutChat(chats, chats[i].id)
       /\ activeChatId' = IF chats[i].id = activeChatId THEN 0 ELSE activeChatId
  /\ UNCHANGED <<input, availableModels, selectedModels, modelsFetch, loading, error,
                 comparisonResults, showComparison, allEstimates, now>>
  /\ UNCHANGED <<roundVars, normVars, envVars, dashVars>>
  /\ Click

\* chats.map(c => c.id === id ? { ...c, title: name } : c)
Renamed(list, id, name) ==
  [i \in 1..Len(list) |-> IF list[i].id = id THEN [list[i] EXCEPT !.title = name] ELSE list[i]]

\* the rename button of a chat of the sidebar
renameChat ==
  /\ \E i \in 1..Len(chats), name \in RenameInputs :
       chats' = IF name = Undefined \/ Trim(name[1]) = <<>>
                THEN chats
                ELSE Renamed(chats, chats[i].id, name[1])
  /\ UNCHANGED <<input, availableModels, selectedModels, modelsFetch, loading, error,
                 comparisonResults, showComparison, activeChatId, allEstimates, now>>
  /\ UNCHANGED <<roundVars, normVars, envVars, dashVars>>
  /\ Click

\* onClick={() => setActiveChatId(chat.id)}
SelectChat ==
  /\ \E i \in 1..Len(chats) : activeChatId' = chats[i].id
  /\ activeChatId' # activeChatId
  /\ UNCHANGED <<input, availableModels, selectedModels, modelsFetch, loading, error,
                 comparisonResults, showComparison, chats, allEstimates, now>>
  /\ UNCHANGED <<roundVars, normVars, envVars, dashVars>>
  /\ Click

\* a model tag of compare mode
ToggleModel ==
  /\ selectedMode = "compare"
  /\ \E i \in 1..Len(availableModels) :
       selectedModels' = IF Includes(selectedModels, availableModels[i])
                         THEN Without(selectedModels, availableModels[i])
                         ELSE Append(selectedModels, availableModels[i])
  /\ UNCHANGED <<input, availableModels, modelsFetch, loading, error,
                 comparisonResults, showComparison, chats, activeChatId, allEstimates, now>>
  /\ UNCHANGED <<roundVars, normVars, envVars, dashVars>>
  /\ Click

NextApp ==
  \/ Next
  \/ CompareRejected
  \/ CompareDispatch
  \/ CompareFetchThrows
  \/ CompareNotOk
  \/ CompareErrorThrown
  \/ CompareOk
  \/ CompareJsonThrows
  \/ CompareJsonOk
  \/ handleNewChat
  \/ deleteChat
  \/ renameChat
  \/ SelectChat
  \/ ToggleModel
  \/ SetMode
  \/ DashboardEffect

AppSpec == InitApp /\ [][NextApp]_vars

----------------------------------------------------------------------------
(* The two handlers under the condition that every request settles           *)

\* an await of a handler call in flight settles, resolved or rejected
Settles ==
  \/ FetchThrows
  \/ FetchNotOk
  \/ TextSettles
  \/ FetchOk
  \/ JsonThrows
  \/ JsonOk
  \/ CompareFetchThrows
  \/ CompareNotOk
  \/ CompareErrorThrown
  \/ CompareOk
  \/ CompareJsonThrows
  \/ CompareJsonOk

NextRounds ==
  \/ Next
  \/ CompareRejected
  \/ CompareDispatch
  \/ CompareFetchThrows
  \/ CompareNotOk
  \/ CompareErrorThrown
  \/ CompareOk
  \/ CompareJsonThrows
  \/ CompareJsonOk
  \/ ToggleModel
  \/ SetMode

SettlingSpec == InitApp /\ [][NextRounds]_vars /\ WF_vars(Settles)

----------------------------------------------------------------------------
(* Properties of the auto-select round *)

\* the iterations of the round that received a successful result
OkIndexes == {i \in 1..Len(responses) : responses[i].ok}

\* the place among the successful results of the one received in iteration i
OkRank(i) == Cardinality({j \in 1..i : responses[j].ok})

IndexOf(seq, m) == CHOOSE i \in 1..Len(seq) : seq[i] = m

\* carbon + (1 - accuracy/100) of an entry { model, carbon, accuracy } of the
\* comparison list, its accuracy being on the 0-100 scale
EntryScore(e) == e.carbon + (Unit - e.accuracy \div Hundred)

\* the first successful iteration among those of the lowest logged score
FirstBest ==
  CHOOSE i \in OkIndexes :
    \A j \in OkIndexes :
      \/ responses[i].score < responses[j].score
      \/ responses[i].score = responses[j].score /\ i <= j

\* the comparison list the round has shown
Shown == comparisonResults[1]

\* C1: after a round with at least one successful response, the winner's
\* carbon + (1 - accuracy/100), taken from the comparison list the round shows,
\* is less than or equal to that of every other entry of the list.
C1_WinnerScoreIsMinimal ==
  exit = "winner" =>
    /\ comparisonResults # Undefined
    /\ \E w \in 1..Len(Shown) :
         /\ Shown[w].model = bestModel
         /\ \A j \in 1..Len(Shown) : EntryScore(Shown[w]) <= EntryScore(Shown[j])

\* a round of three successful candidates in which the last one has the
\* strictly lowest score and wins
C1_Witness ==
  /\ exit = "winner"
  /\ Len(Shown) = 3
  /\ bestModel = Shown[3].model
  /\ EntryScore(Shown[3]) < EntryScore(Shown[1])
  /\ EntryScore(Shown[3]) < EntryScore(Shown[2])

\* C2: among successful candidates of identical score the winner is the one
\* earliest in the configured provider list, and the winner is a function of
\* the per-provider results: it is the first candidate of the lowest score.
C2_TieGoesToEarliestProvider ==
  exit = "winner" =>
    /\ \A j \in OkIndexes :
         responses[j].score = bestScore[1] => IndexOf(cModels, bestModel) <= j
    /\ bestModel = cModels[FirstBest]
    /\ bestResult = responses[FirstBest].result

\* a round in which two candidates tie on the lowest score and the earlier wins
C2_Witness ==
  /\ exit = "winner"
  /\ \E i \in OkIndexes : \E j \in OkIndexes :
       /\ i < j
       /\ responses[i].score = responses[j].score
       /\ responses[i].score = bestScore[1]
       /\ bestModel = cModels[i]

\* the step that ends a round that had dispatched requests
RoundEnds == pc # "idle" /\ pc' = "idle"

\* the failure entries the outcome of a round carries: the one error message
FailuresCarried == IF error = "" THEN <<>> ELSE <<error>>

C4_FailureNeverAbortsRound ==
  [][ RoundEnds =>
        /\ Len(responses') = Len(cModels)
        /\ \A i \in 1..Len(cModels) : responses'[i].model = cModels[i]
        /\ (\E i \in 1..Len(responses') : responses'[i].ok) =>
             /\ exit' = "winner"
             /\ \E i \in 1..Len(responses') :
                  /\ responses'[i].ok
                  /\ responses'[i].model = bestModel'
                  /\ responses'[i].result = bestResult'
                  /\ allEstimates' = Append(allEstimates, responses'[i].result[1]) ]_vars

\* the first provider failed, the second succeeded and a later one wins
C4_Witness ==
  /\ exit = "winner"
  /\ Len(responses) = 3
  /\ ~responses[1].ok
  /\ responses[2].ok
  /\ responses[3].ok
  /\ bestModel = cModels[3]

\* C5 as stated: the requests of a round are dispatched concurrently: while
\* the round waits for a provider, the request of every configured provider
\* has been issued.
C5_AllRequestsIssuedTogether ==
  pc # "idle" => Len(issued) = Len(cModels)

\* the carbon of a result in kilograms: grams are a thousandth of a kilogram
GramsPerKg == 1000

KilogramsOf(result) ==
  IF Truthy(result.carbon_emitted_kgco2) THEN result.carbon_emitted_kgco2[1]
  ELSE IF Truthy(result.carbon_emitted_grams)
       THEN result.carbon_emitted_grams[1] \div GramsPerKg
       ELSE 0

\* C6 as stated: the score logged for every successful candidate is its carbon
\* in kilograms plus (1 - accuracy/100), the accuracy on the 0-100 scale.
C6_ScoreIsCarbonKgPlusAccuracyLoss ==
  \A i \in OkIndexes :
    responses[i].score =
      KilogramsOf(responses[i].result[1])
        + (Unit - roundResults[OkRank(i)].accuracy \div Hundred)

\* the first entry of the lowest score of a comparison list
FirstMinimal(list) ==
  CHOOSE w \in 1..Len(list) :
    \A j \in 1..Len(list) :
      \/ EntryScore(list[w]) < EntryScore(list[j])
      \/ EntryScore(list[w]) = EntryScore(list[j]) /\ w <= j

AllMessages ==
  UNION { {chats[c].messages[k] : k \in 1..Len(chats[c].messages)} : c \in 1..Len(chats) }

\* C8 as stated: the carbon used to score a candidate and the carbon stored in
\* the chat message are in kilograms, a result that gives grams only being
\* converted.
C8_CarbonInKilograms ==
  /\ \A i \in OkIndexes :
       roundResults[OkRank(i)].carbon = KilogramsOf(responses[i].result[1])
  /\ \A m \in AllMessages :
       \E k \in 1..Len(allEstimates) :
         /\ allEstimates[k].model_name = m.model
         /\ allEstimates[k].response_text = m.response_text
         /\ m.carbon = KilogramsOf(allEstimates[k])

\* C9 as stated: whatever the raw accuracy, accuracyDisplay lies in [0,100].
C9_DisplayWithinRange ==
  nDisp # Undefined => (0 <= nDisp[1] /\ nDisp[1] <= Hundred * Unit)

\* C10: accuracyNormalized, accuracyDisplay and formatPercentage follow one
\* rule: a value above 1 is a percentage and passes through, a value up to and
\* including 1 is a fraction and is multiplied by 100; a percentage p in
\* (1,100] and the fraction p/100 give the same value; the fraction used for
\* scoring is the displayed percentage divided by 100.
C10_OneNormalizationRule ==
  /\ nDisp # Undefined =>
       /\ nIn > Unit => nDisp[1] = nIn
       /\ nIn <= Unit => nDisp[1] = nIn * Hundred
       /\ (nIn > Unit /\ nIn <= Hundred * Unit) =>
            nDisp[1] = AccuracyDisplay(nIn \div Hundred)
  /\ (nDisp # Undefined /\ nNorm # Undefined) => nNorm[1] * Hundred = nDisp[1]
  /\ (nDisp # Undefined /\ nFmt # Undefined) => nFmt[1] = ToFixed1(nDisp[1])

\* 0.75 and 75 both come out as 75 (75.0 when formatted, 0.75 for the score)
C10_Witness ==
  /\ nIn \in {75 * Unit, (75 * Unit) \div Hundred}
  /\ nDisp = Some(75 * Unit)
  /\ nNorm = Some((75 * Unit) \div Hundred)
  /\ nFmt = Some(750)

\* a result without accuracy: none nested, none at the top level
NoAccuracy(result) ==
  ~Truthy(NestedAccuracy(result)) /\ ~Truthy(result.overall_accuracy)

\* C11: a provider that answers without an accuracy is still a candidate: it
\* is in the comparison list with accuracy 0, its score is carbon + 1, and it
\* wins the round when no other candidate has a lower score (nor an earlier
\* one an equal score).
C11_NoAccuracyStillCandidate ==
  \A i \in OkIndexes :
    NoAccuracy(responses[i].result[1]) =>
      /\ roundResults[OkRank(i)].model = cModels[i]
      /\ roundResults[OkRank(i)].accuracy = 0
      /\ responses[i].score = roundResults[OkRank(i)].carbon + Unit
      /\ ( /\ exit = "winner"
           /\ \A j \in OkIndexes :
                /\ j < i => responses[j].score > responses[i].score
                /\ j > i => responses[j].score >= responses[i].score )
         => /\ bestModel = cModels[i]
            /\ bestResult = responses[i].result
            /\ comparisonResults = Some(roundResults)

\* a round won by a candidate without accuracy, a second one in the list
C11_Witness ==
  /\ exit = "winner"
  /\ NoAccuracy(bestResult[1])
  /\ Cardinality(OkIndexes) >= 2
  /\ Len(Shown) >= 2

WhitelistedNames == {MODEL_WHITELIST[i] : i \in 1..Len(MODEL_WHITELIST)}

\* the names the last answer of GET /models reports as api_available
ReportedAvailable ==
  IF modelsData = Undefined THEN {}
  ELSE {modelsData[1][d].name : d \in {d \in 1..Len(modelsData[1]) : modelsData[1][d].api_available}}

\* C13: every provider an estimate request is dispatched to is in
\* MODEL_WHITELIST and was reported api_available by the model fetch; while
\* the fetch has failed, is pending or gave no such provider, starting a round
\* dispatches nothing and shows an error.
C13_OnlyConfiguredProvidersDispatched ==
  /\ [](\A k \in 1..Len(issued) :
          issued[k] \in WhitelistedNames /\ issued[k] \in ReportedAvailable)
  /\ [][ (rounds' = rounds + 1 /\ ReportedAvailable \cap WhitelistedNames = {}) =>
           /\ pc' = "idle"
           /\ issued' = issued
           /\ error' \in {NoModelsMsg, ImageMsg} ]_vars

\* the answer named gpt-4 and an unavailable mistral: neither was asked
C13_Witness ==
  /\ exit = "winner"
  /\ Len(modelsData[1]) = 4
  /\ issued = <<"nvidia-qwen-coder", "gemini-2.0-flash">>

\* C14: a round that produces a winner adds exactly one entry to allEstimates,
\* the winner's result; a round without winner, and every other step, adds
\* nothing.
C14_OnlyWinnerEntersHistory ==
  [][ IF RoundEnds /\ exit' = "winner"
      THEN /\ allEstimates' = Append(allEstimates, bestResult'[1])
           /\ \E i \in 1..Len(responses') :
                /\ responses'[i].ok
                /\ responses'[i].model = bestModel'
                /\ responses'[i].result = bestResult'
      ELSE allEstimates' = allEstimates ]_vars

\* the second winner is in the history, its two rivals are not
C14_Witness ==
  /\ exit = "winner"
  /\ Len(allEstimates) = 2
  /\ Cardinality(OkIndexes) = 3
  /\ allEstimates[2] = bestResult[1]

\* the ways a round of handleSingleEstimate ends without a winner
NoWinnerExits == {"allfailed", "image", "nomodels"}

\* C28: a round that ends without a winner (all providers failed, an image
\* prompt, no available models) leaves chats, activeChatId, allEstimates, the
\* comparison results and the prompt as they were; each of its steps changes
\* nothing of the interface but loading and error, and its last one sets the
\* error message and leaves loading false.
C28_NoWinnerRoundChangesNothing ==
  [][ /\ pc' # "idle" =>
           UNCHANGED <<chats, activeChatId, allEstimates, comparisonResults, input>>
      /\ exit' \in NoWinnerExits /\ (RoundEnds \/ rounds' = rounds + 1) =>
           /\ UNCHANGED <<chats, activeChatId, allEstimates, comparisonResults,
                          showComparison, input, availableModels, selectedModels, now>>
           /\ error' \in {NoResultsMsg, ImageMsg, NoModelsMsg}
           /\ loading' = FALSE ]_vars

\* a round in which all three providers failed, after a round with a winner
C28_Witness ==
  /\ exit = "allfailed"
  /\ Len(responses) = 3
  /\ error = NoResultsMsg
  /\ ~loading
  /\ Len(allEstimates) = 1
  /\ comparisonResults # Undefined
  /\ Len(chats) = 1
  /\ Trim(input) # <<>>

----------------------------------------------------------------------------
(* Properties of the round of the guide's example *)

\* the iteration of the last round that was answered with candidate
AnsweredWith(candidate) ==
  {i \in OkIndexes : responses[i].result[1] = ResultFor(responses[i].model, candidate)}

\* the last round had three successful candidates: A, B and C, in any order
ExampleRound ==
  /\ Len(responses) = 3
  /\ Cardinality(AnsweredWith(CandidateA)) = 1
  /\ Cardinality(AnsweredWith(CandidateB)) = 1
  /\ Cardinality(AnsweredWith(CandidateC)) = 1

----------------------------------------------------------------------------
(* Properties of the whole component *)

\* a step of handleSingleEstimate or of handleCompareModels
HandlerStep == exit' # exit \/ (error' # error /\ modelsFetch' = modelsFetch)

IsPrefix(a, b) == Len(a) <= Len(b) /\ SubSeq(b, 1, Len(a)) = a

\* C12: with an empty or whitespace-only prompt, neither handleSingleEstimate
\* nor handleCompareModels dispatches: no request is issued, loading stays
\* false, the call ends as rejected, and chats and allEstimates are unchanged.
C12_EmptyPromptRejectedBeforeDispatch ==
  [][ pc = "idle" /\ Trim(input) = <<>> =>
        /\ issued' = issued
        /\ pc' = "idle"
        /\ loading' = FALSE
        /\ HandlerStep =>
             /\ exit' \in {"empty", "cmp-rejected"}
             /\ chats' = chats
             /\ allEstimates' = allEstimates ]_vars

C12_Witness ==
  /\ exit = "cmp-rejected"
  /\ input = <<" ">>
  /\ Len(selectedModels) >= 2
  /\ error = CompareRejectedMsg
  /\ ~loading
  /\ issued = <<>>

\* C15: allEstimates is append-only: in every step, whatever the user or a
\* round does, its previous content is a prefix of its new content.
C15_HistoryAppendOnly ==
  [][ IsPrefix(allEstimates, allEstimates') ]_vars

C15_Witness ==
  /\ Len(allEstimates) = 2
  /\ chats = <<>>
  /\ selectedMode = "dashboard"
  /\ clicks = 2

\* C23: at most one round, auto-select or compare, is in flight at any time:
\* a call in flight keeps loading true, and while loading is true no round
\* starts and the prompt is changed by nothing but the end of the round.
C23_AtMostOneRoundInFlight ==
  /\ [](inFlight <= 1 /\ (inFlight = 1 => loading))
  /\ [][ loading => /\ rounds' = rounds
                    /\ inFlight' <= inFlight
                    /\ input' # input => ~loading' ]_vars

\* an auto-select round is in flight and the user has gone to compare mode
\* with two models selected
C23_Witness ==
  /\ inFlight = 1
  /\ pc = "fetch"
  /\ loading
  /\ rounds < MaxRounds
  /\ selectedMode = "compare"
  /\ Len(selectedModels) >= 2
  /\ Trim(input) # <<>>

\* the ids of the chats of a chat list
ChatIds(list) == {list[i].id : i \in 1..Len(list)}

\* the messages of all chats of a chat list that are estimate messages for result
EstimateMessagesFor(list, model, result) ==
  {<<i, k>> \in (1..Len(list)) \X (1..3) :
     /\ k <= Len(list[i].messages)
     /\ list[i].messages[k].type = "estimate"
     /\ list[i].messages[k].model = model
     /\ list[i].messages[k].carbon = CarbonOf(result)
     /\ list[i].messages[k].response_text = result.response_text}

\* the number of messages of a chat list
RECURSIVE MessageCount(_)
MessageCount(list) ==
  IF list = <<>> THEN 0 ELSE Len(Head(list).messages) + MessageCount(Tail(list))

\* C25: the completion of a round changes the chat list only by adding at most
\* one new chat and appending one message to one chat: every chat present just
\* before (those made with New Chat during the round among them) is still
\* present, and no other chat (none deleted during the round) comes back.
C25_RoundCompletionKeepsChats ==
  [][ RoundEnds /\ exit' \in {"winner", "cmp-done"} =>
        /\ ChatIds(chats) \subseteq ChatIds(chats')
        /\ ChatIds(chats') \ ChatIds(chats) \subseteq {now}
        /\ MessageCount(chats') = MessageCount(chats) + 1 ]_vars

\* C26: when a round adds its winner to allEstimates, exactly one estimate
\* message for that winner (same model, carbon and response) is in some chat of
\* the chat list once the round has completed.
C26_WinnerHasOneMessage ==
  [][ RoundEnds /\ exit' = "winner" =>
        Cardinality(EstimateMessagesFor(chats', bestModel', bestResult'[1])
                      \ EstimateMessagesFor(chats, bestModel', bestResult'[1])) = 1 ]_vars

\* C27: activeChatId is null or the id of a chat of the chat list.
C27_ActiveChatExists ==
  activeChatId = 0 \/ activeChatId \in ChatIds(chats)

\* a round that began without active chat has ended after the user made and
\* deleted a chat of their own
C27_Witness ==
  /\ exit \in {"winner", "cmp-done"}
  /\ cActiveChatId = 0
  /\ clicks = 2
  /\ Len(chats) = 1
  /\ activeChatId = chats[1].id
  /\ now = 3

\* the awaits of handleCompareModels
ComparePositions == {"cmpFetch", "cmpErrorJson", "cmpJson"}

\* C29: no step of a compare round changes allEstimates, whether the round
\* succeeds or fails; the round is dispatched only with at least 2 selected
\* models; and a failed one adds no chat message and keeps the prompt.
C29_CompareNeverEntersHistory ==
  [][ /\ pc \in ComparePositions \/ pc' \in ComparePositions =>
           allEstimates' = allEstimates
      /\ pc = "idle" /\ pc' \in ComparePositions =>
           Len(selectedModels) >= 2 /\ Len(cModels') >= 2
      /\ RoundEnds /\ exit' = "cmp-failed" =>
           chats' = chats /\ input' = input /\ Trim(input') # <<>> ]_vars

\* a comparison has succeeded and the Dashboard, shown next, has nothing to count
C29_Witness ==
  /\ exit = "cmp-done"
  /\ Len(chats) = 1
  /\ chats[1].messages[1].type = "comparison"
  /\ allEstimates = <<>>
  /\ selectedMode = "dashboard"
  /\ dSeen = Some(<<>>)
  /\ dStats.totalRequests = 0

----------------------------------------------------------------------------
(* Properties of the two handlers when every request settles *)

\* C24: every round that has started finishes with loading = false, on every
\* path, when each of its requests settles; and loading is reset by nothing
\* but the settling of a request, so that a request that never settles leaves
\* it true.
C24_EveryRoundFinishes ==
  /\ [](inFlight = 0 => ~loading)
  /\ (inFlight > 0) ~> (inFlight = 0 /\ ~loading)
  /\ [][ loading /\ ~loading' => pc # "idle" /\ pc' = "idle" /\ inFlight' = 0 ]_vars

\* both kinds of round have finished, the second one by a failed comparison
C24_Witness ==
  /\ rounds = MaxRounds
  /\ exit = "cmp-failed"
  /\ Len(allEstimates) = 1
  /\ inFlight = 0
  /\ ~loading

----------------------------------------------------------------------------
(* Properties of the Dashboard *)

\* the Dashboard is mounted and its effect has run for some history
Processed == selectedMode = "dashboard" /\ dSeen # Undefined

\* the history the effect last ran for
ProcessedHistory == dSeen[1]

\* the places of h whose estimate is counted under modelName
NamedEntries(h, modelName) == {i \in 1..Len(h) : ModelNameOf(h[i]) = modelName}

\* an accuracy that is present and within 0 to 100, both ends included
InRange(accuracy) ==
  accuracy # Undefined /\ accuracy[1] >= 0 /\ accuracy[1] <= Hundred * Unit

InRangeEntries(h) == {i \in 1..Len(h) : InRange(EntryAccuracy(h[i]))}

RECURSIVE SumOfAccuracies(_, _)
SumOfAccuracies(h, places) ==
  IF places = {} THEN 0
  ELSE LET i == CHOOSE j \in places : TRUE
       IN EntryAccuracy(h[i])[1] + SumOfAccuracies(h, places \ {i})

BreakdownEntries(stats) ==
  {stats.modelBreakdown[i] : i \in 1..Len(stats.modelBreakdown)}

Orderings(n) ==
  {p \in [1..n -> 1..n] : \A i, j \in 1..n : p[i] = p[j] => i = j}

Permuted(h, p) == [i \in 1..Len(h) |-> h[p[i]]]

\* C16: whenever the Dashboard has processed a history h, the statistics it
\* shows are calculateStats(h) computed from scratch: a recomputation after an
\* append replaces the previous totals, and nothing accumulates between runs.
C16_StatsArePureFunctionOfHistory ==
  Processed => dStats = calculateStats(ProcessedHistory)

C16_Witness ==
  /\ Processed
  /\ ProcessedHistory = allEstimates
  /\ Len(allEstimates) = 3
  /\ dStats.totalRequests = 3
  /\ Len(dStats.modelBreakdown) = 2

\* C17: the average accuracy and each provider's accuracy total and count take
\* in exactly the entries whose accuracy is present and within 0 to 100
\* inclusive, an accuracy of exactly 0 among them.
C17_ZeroAndHundredAreValid ==
  Processed /\ ProcessedHistory # <<>> =>
    LET h == ProcessedHistory
        valid == InRangeEntries(h)
    IN /\ dStats.averageAccuracy = Average(SumOfAccuracies(h, valid), Cardinality(valid))
       /\ \A b \in BreakdownEntries(dStats) :
            /\ b.accuracyCount = Cardinality(valid \cap NamedEntries(h, b.name))
            /\ b.totalAccuracy = SumOfAccuracies(h, valid \cap NamedEntries(h, b.name))

\* C18: in every entry of the per-provider breakdown accuracyCount <= count;
\* count is the number of the provider's estimates, while accuracyCount and
\* totalAccuracy take in none of those whose accuracy is absent or out of range.
C18_AccuracyCountAtMostCount ==
  Processed =>
    LET h == ProcessedHistory
    IN \A b \in BreakdownEntries(dStats) :
         LET named == NamedEntries(h, b.name)
             usable == named \cap InRangeEntries(h)
         IN /\ b.accuracyCount <= b.count
            /\ b.count = Cardinality(named)
            /\ b.accuracyCount <= Cardinality(usable)
            /\ b.totalAccuracy = SumOfAccuracies(h, usable)

C18_Witness ==
  /\ Processed
  /\ \E b \in BreakdownEntries(dStats) :
       /\ b.name = "mistral-7b-openrouter"
       /\ b.count = 2
       /\ b.accuracyCount = 1
       /\ b.totalAccuracy = Hundred * Unit

C20_EmptyHistoryShowsZeros ==
  selectedMode = "dashboard" /\ allEstimates = <<>> =>
    /\ calculateStats(<<>>).totalRequests = 0
    /\ calculateStats(<<>>).averageAccuracy = 0
    /\ dStats = calculateStats(<<>>)

C20_Witness ==
  /\ selectedMode = "dashboard"
  /\ allEstimates = <<>>
  /\ dSeen = Some(<<>>)
  /\ dStats.totalRequests = 0

\* the names under which the estimates of h are counted
NamesIn(h) == {ModelNameOf(h[i]) : i \in 1..Len(h)}

RECURSIVE SumOfCarbon(_, _)
SumOfCarbon(h, places) ==
  IF places = {} THEN 0
  ELSE LET i == CHOOSE j \in places : TRUE
       IN EntryCarbon(h[i]) + SumOfCarbon(h, places \ {i})

RECURSIVE SumOfEnergy(_, _)
SumOfEnergy(h, places) ==
  IF places = {} THEN 0
  ELSE LET i == CHOOSE j \in places : TRUE
       IN EntryEnergy(h[i]) + SumOfEnergy(h, places \ {i})

\* C21: topModels has exactly one entry per provider of the history, in order
\* of count, largest first; every count is at least 1, carbonPerRequest is
\* totalCarbon / count, and accuracyAvg is totalAccuracy / accuracyCount when
\* accuracyCount > 0 and 0 otherwise.
C21_TopModelsOnePerProviderByCount ==
  Processed =>
    LET h == ProcessedHistory
        top == dStats.topModels
    IN /\ Len(top) = Cardinality(NamesIn(h))
       /\ {top[i].name : i \in 1..Len(top)} = NamesIn(h)
       /\ \A i \in 1..Len(top) :
            /\ top[i].count >= 1
            /\ i < Len(top) => top[i].count >= top[i + 1].count
            /\ \E b \in BreakdownEntries(dStats) :
                 /\ b.name = top[i].name
                 /\ top[i].count = b.count
                 /\ b.count = Cardinality(NamedEntries(h, b.name))
                 /\ top[i].carbonPerRequest
                      = SumOfCarbon(h, NamedEntries(h, b.name)) \div top[i].count
                 /\ top[i].accuracyAvg
                      = IF b.accuracyCount > 0 THEN b.totalAccuracy \div b.accuracyCount ELSE 0

\* the provider seen second has more requests and comes first; a provider
\* without any valid accuracy is listed with an average of 0
C21_Witness ==
  /\ Processed
  /\ Len(ProcessedHistory) = 3
  /\ Len(dStats.topModels) = 2
  /\ dStats.topModels[1].count = 2
  /\ dStats.topModels[1].name = dStats.modelBreakdown[2].name
  /\ \E i \in 1..2 : dStats.modelBreakdown[i].accuracyCount = 0

\* the sum of one field over the entries of a breakdown
RECURSIVE SumOfField(_, _)
SumOfField(list, field) ==
  IF list = <<>> THEN 0 ELSE Head(list)[field] + SumOfField(Tail(list), field)

====
